---- MODULE Spec2Model ----
(***************************************************************************)
(* Model lifecycle orchestration of Pulsed: the feedback ledger            *)
(* (src/utils/db.py), the model registry wrapper (src/utils/               *)
(* mlflow_utils.py), the promotion / rollback controller (src/pipelines/   *)
(* promote.py) and the two retraining pipelines (src/pipelines/            *)
(* retrain_classifier.py, retrain_summarizer.py).                          *)
(*                                                                         *)
(* Metrics are fixed-point numbers in hundredths (accuracy 0.80 is 80, an  *)
(* improvement threshold of 0.02 is 2).  Registry version numbers are the  *)
(* decimal strings MLflow hands out, kept as sequences of digits; the      *)
(* absent version (Python None) is the empty sequence.                     *)
(***************************************************************************)
EXTENDS Integers, Sequences, FiniteSets, TLC

VARIABLES
    feedback,   \* the feedback table: row i has feedback_id i
    registry,   \* model family -> sequence of registered model versions
    runs,       \* MLflow runs: run_id -> metric logged by the training run
    run,        \* pipeline invocation slot -> position and locals of run()
    lastOp      \* the last call made from outside the pipelines: the result
                \* dict of a ModelPromoter call, or a ledger call

vars == <<feedback, registry, runs, run, lastOp>>

----------------------------------------------------------------------------
(* Bounds of the model *)

MaxFeedback == 2        \* rows the feedback table can hold
MaxVersions == 2        \* training runs (registered versions) over both families
MaxCount == 2           \* predictions per label in a window of the drift monitor
MaxItems == 2           \* rows one cloud sync fetches
KeepLast == {1, 2}              \* keep_last arguments of cleanup_old_versions
FirstVersion == 9       \* next version number of each registered model at start

(* Configuration (src/utils/config.py, RetrainConfig); the retrain thresholds *)
(* are the environment-configurable values, set low.                       *)
ClassifierThreshold == 2
SummarizerThreshold == 2
ClassifierImprovement == 2
SummarizerImprovement == 5

CLASSIFIER_MODEL_NAME == "classifier"
SUMMARIZER_MODEL_NAME == "summarizer"
Families == {CLASSIFIER_MODEL_NAME, SUMMARIZER_MODEL_NAME}
Procs == {1, 2}                 \* pipeline invocations that can overlap

NULL == "NULL"
ArticleIds == {"a1"}            \* article ids feedback is submitted for
raw_articles == {"a1"}          \* rows of raw_articles
SubmittedArticleIds == {"a1", "a2"}     \* article ids the feedback API is called with
ModelTypes == {"classifier", "summarizer", "both"}
FeedbackTypes == {"classification", "summary", "other"}   \* feedback_type arguments
summaries == {"a1"}             \* articles that have a stored summary
AccValues == {80, 81, 82}       \* test_accuracy a classifier run can log
LossValues == {50, 55}          \* eval_loss a summarizer run can log

----------------------------------------------------------------------------
(* Version strings *)

RECURSIVE str(_)
str(n) == IF n < 10 THEN <<n>> ELSE Append(str(n \div 10), n % 10)

RECURSIVE int(_)
int(s) == IF Len(s) = 0 THEN 0
          ELSE 10 * int(SubSeq(s, 1, Len(s) - 1)) + s[Len(s)]

NoVersion == <<>>

----------------------------------------------------------------------------
(* Feedback ledger: src/utils/db.py *)

FeedbackRow(article_id, correct_label, summary_rating, summary_edited_text) ==
    [article_id |-> article_id,
     correct_label |-> correct_label,
     summary_rating |-> summary_rating,
     summary_edited_text |-> summary_edited_text,
     used_for_training |-> FALSE,
     used_for_classifier_training |-> FALSE,
     used_for_summarizer_training |-> FALSE]

insert_classification_feedback(fb, article_id, correct_label) ==
    Append(fb, FeedbackRow(article_id, correct_label, NULL, NULL))

insert_summary_feedback(fb, article_id, rating, edited_text) ==
    Append(fb, FeedbackRow(article_id, NULL, rating, edited_text))

add_feedback(fb, feedback_type, article_id, corrected_value) ==
    IF feedback_type = "classification"
    THEN insert_classification_feedback(fb, article_id, corrected_value)
    ELSE IF feedback_type = "summary"
    THEN insert_summary_feedback(fb, article_id, corrected_value, NULL)
    ELSE fb

get_unused_classification_feedback(fb) ==
    {i \in DOMAIN fb :
        /\ fb[i].article_id \in raw_articles
        /\ fb[i].correct_label # NULL
        /\ ~fb[i].used_for_classifier_training}

get_unused_summary_feedback(fb) ==
    {i \in DOMAIN fb :
        /\ fb[i].article_id \in raw_articles
        /\ (fb[i].summary_rating # NULL \/ fb[i].summary_edited_text # NULL)
        /\ ~fb[i].used_for_summarizer_training}

\* SELECT SUM(CASE WHEN ... THEN 1 ELSE 0 END) ... FROM feedback
get_feedback_stats(fb) ==
    [total_classification_feedback |->
        Cardinality({i \in DOMAIN fb : fb[i].correct_label # NULL}),
     unused_classification_feedback |->
        Cardinality({i \in DOMAIN fb :
            fb[i].correct_label # NULL /\ ~fb[i].used_for_classifier_training}),
     total_summary_feedback |->
        Cardinality({i \in DOMAIN fb :
            fb[i].summary_rating # NULL \/ fb[i].summary_edited_text # NULL}),
     unused_summary_feedback |->
        Cardinality({i \in DOMAIN fb :
            /\ (fb[i].summary_rating # NULL \/ fb[i].summary_edited_text # NULL)
            /\ ~fb[i].used_for_summarizer_training}),
     total_unused_feedback |->
        Cardinality({i \in DOMAIN fb : ~fb[i].used_for_training})]

toggle_feedback_used(fb, feedback_ids, model_type) ==
    [i \in DOMAIN fb |->
        IF i \notin feedback_ids THEN fb[i]
        ELSE [fb[i] EXCEPT !.used_for_training = ~@,
                           !.used_for_classifier_training = ~@,
                           !.used_for_summarizer_training = ~@]]

mark_only_feedback_used(fb, feedback_ids, model_type) ==
    [i \in DOMAIN fb |->
        [fb[i] EXCEPT !.used_for_training = (i \in feedback_ids),
                      !.used_for_classifier_training = (i \in feedback_ids)]]

mark_all_feedback_used(fb, feedback_ids, model_type) ==
    [i \in DOMAIN fb |->
        [fb[i] EXCEPT !.used_for_training = TRUE,
                      !.used_for_classifier_training = TRUE]]

mark_feedback_used(fb, feedback_ids, model_type) ==
    IF feedback_ids = {} THEN fb
    ELSE [i \in DOMAIN fb |->
            IF i \notin feedback_ids THEN fb[i]
            ELSE IF model_type = "classifier"
            THEN [fb[i] EXCEPT !.used_for_training = TRUE,
                               !.used_for_classifier_training = TRUE]
            ELSE IF model_type = "summarizer"
            THEN [fb[i] EXCEPT !.used_for_training = TRUE,
                               !.used_for_summarizer_training = TRUE]
            ELSE [fb[i] EXCEPT !.used_for_training = TRUE,
                               !.used_for_classifier_training = TRUE,
                               !.used_for_summarizer_training = TRUE]]

----------------------------------------------------------------------------
(* Model registry: src/utils/mlflow_utils.py.  A registered model is the    *)
(* sequence of its versions in order of creation; the registry client may  *)
(* fail on any call (argument ok = FALSE).                                 *)

ModelVersionInProduction(version, run_id) ==
    [version |-> version, current_stage |-> "Production", run_id |-> run_id]

ModelVersion(version, run_id) ==
    [version |-> version, current_stage |-> "None", run_id |-> run_id]

Max(S) == CHOOSE x \in S : \A y \in S : y <= x

VersionsInStage(versions, stage) ==
    {i \in DOMAIN versions : versions[i].current_stage = stage}

\* client.search_model_versions(name=...) followed by the run_id match loop
version_for_run(versions, run_id) ==
    IF \E i \in DOMAIN versions : versions[i].run_id = run_id
    THEN versions[CHOOSE i \in DOMAIN versions : versions[i].run_id = run_id].version
    ELSE NoVersion

\* the latest version in the given stage, None when there is none or the
\* client call raised (the exception is logged and swallowed)
get_latest_version(versions, stage, ok) ==
    IF ~ok THEN NoVersion
    ELSE IF VersionsInStage(versions, stage) = {} THEN NoVersion
    ELSE LET i == CHOOSE i \in VersionsInStage(versions, stage) :
                     \A j \in VersionsInStage(versions, stage) :
                         int(versions[j].version) <= int(versions[i].version)
         IN versions[i].version

get_production_model_version(versions, ok) ==
    get_latest_version(versions, "Production", ok)

\* client.transition_model_version_stage: the version takes the new stage;
\* with archive_existing the other versions in that stage become Archived
transition_model_stage(versions, version, stage, archive_existing) ==
    [i \in DOMAIN versions |->
        IF versions[i].version = version
        THEN [versions[i] EXCEPT !.current_stage = stage]
        ELSE IF archive_existing /\ versions[i].current_stage = stage
        THEN [versions[i] EXCEPT !.current_stage = "Archived"]
        ELSE versions[i]]

registry_promote_unarchived(versions, version) ==
    transition_model_stage(versions, version, "Production", FALSE)

registry_promote_to_production(versions, version) ==
    transition_model_stage(versions, version, "Production", TRUE)

get_model_history(versions, ok) == IF ok THEN versions ELSE <<>>

\* the versions cleanup_old_versions moves to Archived when every call
\* succeeds: neither Production nor Archived, at index keep_last or later of
\* the list sorted by version number, descending
cleanup_candidates(versions, keep_last) ==
    {i \in DOMAIN versions :
        /\ versions[i].current_stage \notin {"Production", "Archived"}
        /\ Cardinality({j \in DOMAIN versions :
               int(versions[j].version) > int(versions[i].version)}) >= keep_last}

\* the loop walks the sorted list; `done` transitions succeed before the
\* registry client raises (all of them when it does not)
cleanup_old_versions(versions, keep_last, done) ==
    LET candidates == cleanup_candidates(versions, keep_last)
        archived == {i \in candidates :
                        Cardinality({j \in candidates :
                            int(versions[j].version) > int(versions[i].version)}) < done}
    IN [i \in DOMAIN versions |->
           IF i \in archived
           THEN [versions[i] EXCEPT !.current_stage = "Archived"]
           ELSE versions[i]]

\* _get_run_id_for_version followed by get_run_metrics: the metric logged by
\* the run behind a version
run_id_for_version(versions, version) ==
    versions[CHOOSE i \in DOMAIN versions : versions[i].version = version].run_id

----------------------------------------------------------------------------
(* Promotion / rollback controller: src/pipelines/promote.py.  Each        *)
(* operator yields the registered versions after the call and the result   *)
(* dict the call returns (without the timestamp and the previous           *)
(* production version, which is looked up for the log line only).          *)

Result(op, model_name, success, version, new_stage, reason, error) ==
    [op |-> op, model_name |-> model_name, success |-> success,
     version |-> version, new_stage |-> new_stage,
     reason |-> reason, error |-> error]

Failure(op, model_name, error) ==
    Result(op, model_name, FALSE, NoVersion, NULL, NULL, error)

NoResult == Result("none", NULL, FALSE, NoVersion, NULL, NULL, NULL)

promote_to_staging_archiving(versions, model_name, version, reason, ok) ==
    IF ok
    THEN [versions |-> transition_model_stage(versions, version, "Staging", TRUE),
          result |-> Result("promote_to_staging", model_name, TRUE, version,
                            "Staging", reason, NULL)]
    ELSE [versions |-> versions,
          result |-> Failure("promote_to_staging", model_name, "registry error")]

promote_to_staging(versions, model_name, version, reason, ok) ==
    IF ok
    THEN [versions |-> transition_model_stage(versions, version, "Staging", FALSE),
          result |-> Result("promote_to_staging", model_name, TRUE, version,
                            "Staging", reason, NULL)]
    ELSE [versions |-> versions,
          result |-> Failure("promote_to_staging", model_name, "registry error")]

\* ok.transition: the registry answers the calls of promote_to_production
promote_to_production(versions, model_name, version, reason, ok) ==
    IF ok.transition
    THEN [versions |-> registry_promote_to_production(versions, version),
          result |-> Result("promote_to_production", model_name, TRUE, version,
                            "Production", reason, NULL)]
    ELSE [versions |-> versions,
          result |-> Failure("promote_to_production", model_name, "registry error")]

\* promote_classifier / promote_summarizer once search_model_versions returned
promote_model(versions, model_name, run_id, reason, ok) ==
    IF version_for_run(versions, run_id) = NoVersion
    THEN [versions |-> versions,
          result |-> Failure("promote_to_production", model_name,
                             "No model found for run ID")]
    ELSE promote_to_production(versions, model_name,
                               version_for_run(versions, run_id), reason, ok)

StrLess(a, b) ==
    \E k \in 1..(Len(a) + 1) :
        /\ k <= Len(b)
        /\ \A j \in 1..(k - 1) : j <= Len(a) /\ j <= Len(b) /\ a[j] = b[j]
        /\ (k = Len(a) + 1 \/ (k <= Len(a) /\ a[k] < b[k]))

all_but_production(history) ==
    {i \in DOMAIN history : history[i].current_stage # "Production"}

\* archived = [v for v in versions if v.get("stage") == "Archived"]
archived_versions(history) ==
    {i \in DOMAIN history : history[i].current_stage = "Archived"}

first_by_string_order(history, archived) ==
    history[CHOOSE i \in archived :
               \A j \in archived :
                   j = i \/ StrLess(history[j].version, history[i].version)].version

\* archived.sort(key=lambda x: int(x["version"]), reverse=True); archived[0]
most_recent_archived(history, archived) ==
    history[CHOOSE i \in archived :
               \A j \in archived :
                   int(history[j].version) <= int(history[i].version)].version

\* to_version = NoVersion is the call without an explicit target; the op
\* field of the result tells the two kinds of call apart
rollback(versions, model_name, to_version, ok) ==
    IF to_version = NoVersion
          /\ archived_versions(get_model_history(versions, ok.history)) = {}
    THEN [versions |-> versions,
          result |-> Failure("rollback", model_name,
                             "No archived versions to rollback to")]
    ELSE LET target == IF to_version = NoVersion
                       THEN most_recent_archived(
                                get_model_history(versions, ok.history),
                                archived_versions(get_model_history(versions, ok.history)))
                       ELSE to_version
             p == promote_to_production(versions, model_name, target, "Rollback", ok)
         IN [versions |-> p.versions,
             result |-> [p.result EXCEPT
                            !.op = IF to_version = NoVersion THEN "rollback"
                                   ELSE "rollback_to"]]

----------------------------------------------------------------------------
(* Retraining pipelines: src/pipelines/retrain_classifier.py and           *)
(* src/pipelines/retrain_summarizer.py.                                    *)

Threshold(model_name) ==
    IF model_name = CLASSIFIER_MODEL_NAME THEN ClassifierThreshold
    ELSE SummarizerThreshold

ImprovementThreshold(model_name) ==
    IF model_name = CLASSIFIER_MODEL_NAME THEN ClassifierImprovement
    ELSE SummarizerImprovement

MetricValues(model_name) ==
    IF model_name = CLASSIFIER_MODEL_NAME THEN AccValues ELSE LossValues

needs_retrain_below(count, threshold) == count >= threshold - 1

\* needs_retrain = len(feedback) >= self.threshold
needs_retrain(count, threshold) == count >= threshold

unused_feedback(model_name, fb) ==
    IF model_name = CLASSIFIER_MODEL_NAME
    THEN get_unused_classification_feedback(fb)
    ELSE get_unused_summary_feedback(fb)

check_retrain_needed(model_name, fb) ==
    [needs_retrain |-> needs_retrain(Cardinality(unused_feedback(model_name, fb)),
                                     Threshold(model_name)),
     feedback_count |-> Cardinality(unused_feedback(model_name, fb)),
     good_count |-> IF model_name = CLASSIFIER_MODEL_NAME THEN 0
                    ELSE Cardinality({i \in get_unused_summary_feedback(fb) :
                                        fb[i].summary_rating = "good"})]

\* the feedback ids _prepare_training_data returns; one training example is
\* built per id
prepare_training_data(model_name, fb) ==
    IF model_name = CLASSIFIER_MODEL_NAME
    THEN get_unused_classification_feedback(fb)
    ELSE {i \in get_unused_summary_feedback(fb) :
            \/ fb[i].summary_edited_text # NULL
            \/ (fb[i].summary_rating = "good" /\ fb[i].article_id \in summaries)}

never_empty(feedback_ids) == FALSE

\* if not training_data: / if len(training_data) == 0: the hard stop
no_training_data(feedback_ids) == feedback_ids = {}

\* if len(training_data) < 10: the summarizer run logs a warning
MinSummarizerSamples == 10

\* improvement of the candidate over production: accuracy gained
\* (classifier), eval_loss shed (summarizer)
improvement_of(model_name, new_metric, current_metric) ==
    IF model_name = CLASSIFIER_MODEL_NAME
    THEN new_metric - current_metric
    ELSE current_metric - new_metric

MaxOf(a, b) == IF a >= b THEN a ELSE b

\* good_pct > 0.7 with good_pct = good_count / max(feedback_count, 1)
good_pct_lenient(check) ==
    10 * check.good_count > 7 * MaxOf(check.feedback_count, 1)

meets_criteria_strict(model_name, improvement, check) ==
    IF model_name = CLASSIFIER_MODEL_NAME
    THEN improvement > ClassifierImprovement
    ELSE improvement > SummarizerImprovement \/ good_pct_lenient(check)

\* the condition of the promotion branch
meets_criteria(model_name, improvement, check) ==
    IF model_name = CLASSIFIER_MODEL_NAME
    THEN improvement >= ClassifierImprovement
    ELSE improvement >= SummarizerImprovement \/ good_pct_lenient(check)

should_mark_retrained(results) == results.retrained

\* if results["promoted"]:
should_mark(results) == results.promoted

\* model_type the run passes to mark_feedback_used (the summarizer run
\* passes none, so the default applies)
mark_model_type(model_name) ==
    IF model_name = CLASSIFIER_MODEL_NAME THEN "classifier" ELSE "both"

\* the rows whose consumption flag for the model family is set
ConsumedBy(model_name, fb) ==
    {i \in DOMAIN fb :
        IF model_name = CLASSIFIER_MODEL_NAME
        THEN fb[i].used_for_classifier_training
        ELSE fb[i].used_for_summarizer_training}

NoCheck == [needs_retrain |-> FALSE, feedback_count |-> 0, good_count |-> 0]

NoResults == [retrained |-> FALSE, promoted |-> FALSE, error |-> NULL]

IdleRun ==
    [pc |-> "idle", model_name |-> NULL, force |-> FALSE, check |-> NoCheck,
     feedback_ids |-> {}, run_id |-> 0, current_version |-> NoVersion,
     compared |-> FALSE, improvement |-> 0, results |-> NoResults,
     promote_success |-> FALSE, marked |-> {}, consumed_before |-> {}]

----------------------------------------------------------------------------
(* Drift monitor: src/monitoring/drift.py.  p-values are fixed-point        *)
(* numbers in hundredths; the value scipy's chisquare computes is an input. *)

DriftThreshold == 5             \* DriftDetector(threshold=0.05)
MediumBoundary == 10            \* the 0.1 of get_drift_report
Labels == {"garbage", "important"}
PValues == {0, 4, 5, 6, 9, 10, 11, 100}

\* what stats.chisquare does: it returns a p-value or raises
ChiSquareOutcomes ==
    {[p_value |-> p] : p \in PValues} \cup {[error |-> "exception"]}

RECURSIVE SumOver(_, _)
SumOver(counts, keys) ==
    IF keys = {} THEN 0
    ELSE LET k == CHOOSE k \in keys : TRUE
         IN counts[k] + SumOver(counts, keys \ {k})

chi_square_test(reference_counts, current_counts, chisquare) ==
    IF SumOver(reference_counts, Labels) = 0 \/ SumOver(current_counts, Labels) = 0
    THEN [drift_detected |-> FALSE, reason |-> "Insufficient data"]
    ELSE IF "error" \in DOMAIN chisquare
    THEN [drift_detected |-> FALSE, error |-> chisquare.error]
    ELSE [drift_detected |-> chisquare.p_value < DriftThreshold,
          p_value |-> chisquare.p_value, threshold |-> DriftThreshold]

\* report["prediction_drift"].get("p_value", 1)
p_value_or_one(prediction_drift) ==
    IF "p_value" \in DOMAIN prediction_drift THEN prediction_drift.p_value ELSE 100

alert_level_inclusive(prediction_drift) ==
    IF p_value_or_one(prediction_drift) <= DriftThreshold THEN "high"
    ELSE IF p_value_or_one(prediction_drift) <= MediumBoundary THEN "medium"
    ELSE "low"

\* the alert level get_drift_report derives
alert_level(prediction_drift) ==
    IF prediction_drift.drift_detected THEN "high"
    ELSE IF p_value_or_one(prediction_drift) < MediumBoundary THEN "medium"
    ELSE "low"

get_drift_report(reference_counts, current_counts, chisquare) ==
    [op |-> "get_drift_report",
     reference_counts |-> reference_counts,
     current_counts |-> current_counts,
     prediction_drift |-> chi_square_test(reference_counts, current_counts,
                                          chisquare),
     alert_level |-> alert_level(chi_square_test(reference_counts,
                                                 current_counts, chisquare))]

----------------------------------------------------------------------------
(* Initial state: empty feedback table, no registered version, no run *)

Init ==
    /\ feedback = <<>>
    /\ registry = [m \in Families |-> <<>>]
    /\ runs = <<>>
    /\ run = [p \in Procs |-> IdleRun]
    /\ lastOp = NoResult

----------------------------------------------------------------------------
(* Feedback submission *)

\* DatabaseManager.add_feedback as called by the API and the cloud sync
AddFeedback(feedback_type, article_id, corrected_value) ==
    /\ Len(feedback) < MaxFeedback
    /\ feedback' = add_feedback(feedback, feedback_type, article_id, corrected_value)
    /\ UNCHANGED <<registry, runs, run, lastOp>>

\* DatabaseManager.add_feedback as its caller sees it: it returns normally or
\* raises (the session re-raises a storage failure); a feedback_type that is
\* neither "classification" nor "summary" reaches no database call
RecordFeedback(feedback_type, article_id, corrected_value) ==
    /\ Len(feedback) < MaxFeedback
    /\ \E dbok \in BOOLEAN :
         LET raised == ~dbok /\ feedback_type \in {"classification", "summary"}
         IN /\ feedback' = IF raised THEN feedback
                           ELSE add_feedback(feedback, feedback_type, article_id,
                                             corrected_value)
            /\ lastOp' = [op |-> "add_feedback", feedback_type |-> feedback_type,
                          raised |-> raised,
                          appended |-> Len(feedback') - Len(feedback)]
    /\ UNCHANGED <<registry, runs, run>>

\* DatabaseManager.mark_feedback_used called directly
MarkFeedbackUsed(feedback_ids, model_type) ==
    /\ feedback' = mark_feedback_used(feedback, feedback_ids, model_type)
    /\ lastOp' = [op |-> "mark_feedback_used", feedback_ids |-> feedback_ids,
                  model_type |-> model_type, changed |-> feedback' # feedback]
    /\ UNCHANGED <<registry, runs, run>>

----------------------------------------------------------------------------
(* One invocation of run(force), step by step at its database and registry *)
(* calls                                                                   *)

\* run() up to the NotNeeded return: check_retrain_needed reads the ledger
Start(p, model_name, force) ==
    /\ run[p].pc = "idle"
    /\ \E dbok \in BOOLEAN :
         run' = [run EXCEPT ![p] =
            IF ~dbok
            THEN [IdleRun EXCEPT !.pc = "raised", !.model_name = model_name,
                                 !.force = force]
            ELSE [IdleRun EXCEPT
                    !.model_name = model_name, !.force = force,
                    !.consumed_before = ConsumedBy(model_name, feedback),
                    !.check = check_retrain_needed(model_name, feedback),
                    !.pc = IF ~check_retrain_needed(model_name, feedback).needs_retrain
                              /\ ~force
                           THEN "done" ELSE "prepare"]]
    /\ UNCHANGED <<feedback, registry, runs, lastOp>>

\* _prepare_training_data and the empty-data return
Prepare(p) ==
    /\ run[p].pc = "prepare"
    /\ \E dbok \in BOOLEAN :
         run' = [run EXCEPT ![p] =
            IF ~dbok
            THEN [@ EXCEPT !.pc = "done", !.results.error = "exception"]
            ELSE IF no_training_data(prepare_training_data(run[p].model_name,
                                                           feedback))
            THEN [@ EXCEPT !.pc = "done",
                           !.results.error =
                               IF run[p].model_name = CLASSIFIER_MODEL_NAME
                               THEN "No training data"
                               ELSE "No usable training data"]
            ELSE [@ EXCEPT !.pc = "train",
                           !.feedback_ids =
                               prepare_training_data(run[p].model_name, feedback)]]
    /\ UNCHANGED <<feedback, registry, runs, lastOp>>

\* trainer.train(articles, register_model=True): logs the metric to a new
\* MLflow run and registers a new version at stage None; it can raise
\* before or after the registration; cap bounds the number of training runs
Train(p, metric, cap) ==
    /\ run[p].pc = "train"
    /\ \/ /\ run' = [run EXCEPT ![p].pc = "done",
                                ![p].results.error = "exception"]
          /\ UNCHANGED <<registry, runs>>
       \/ /\ Len(runs) < cap
          /\ runs' = Append(runs, metric)
          /\ registry' = [registry EXCEPT ![run[p].model_name] =
                Append(@, ModelVersion(str(FirstVersion + Len(@)), Len(runs) + 1))]
          /\ run' = [run EXCEPT ![p].pc = "done",
                                ![p].results.error = "exception"]
       \/ /\ Len(runs) < cap
          /\ runs' = Append(runs, metric)
          /\ registry' = [registry EXCEPT ![run[p].model_name] =
                Append(@, ModelVersion(str(FirstVersion + Len(@)), Len(runs) + 1))]
          /\ run' = [run EXCEPT ![p].pc = "compare",
                                ![p].run_id = Len(runs) + 1,
                                ![p].results.retrained = TRUE]
    /\ UNCHANGED <<feedback, lastOp>>

\* the comparison with the production model and the promotion decision
Compare(p) ==
    /\ run[p].pc = "compare"
    /\ \E ok \in [lookup : BOOLEAN, metrics : BOOLEAN] :
         LET m == run[p].model_name
             current == get_production_model_version(registry[m], ok.lookup)
         IN run' = [run EXCEPT ![p] =
              IF current = NoVersion
              THEN [@ EXCEPT !.pc = "promote"]
              ELSE IF ~ok.metrics
              THEN [@ EXCEPT !.pc = "done", !.current_version = current,
                             !.results.error = "exception"]
              ELSE LET imp == improvement_of(m, runs[run[p].run_id],
                                  runs[run_id_for_version(registry[m], current)])
                   IN [@ EXCEPT !.current_version = current,
                                !.compared = TRUE,
                                !.improvement = imp,
                                !.pc = IF meets_criteria(m, imp, run[p].check)
                                       THEN "promote" ELSE "mark"]]
    /\ UNCHANGED <<feedback, registry, runs, lastOp>>

\* self.promoter.promote_classifier / promote_summarizer, whose returned
\* dict run() discards, and results["promoted"] = True
Promote(p) ==
    /\ run[p].pc = "promote"
    /\ \E ok \in [search : BOOLEAN, transition : BOOLEAN] :
         LET m == run[p].model_name
             r == promote_model(registry[m], m, run[p].run_id, "pipeline", ok)
         IN IF ~ok.search
            THEN /\ run' = [run EXCEPT ![p].pc = "done",
                                       ![p].results.error = "exception"]
                 /\ UNCHANGED registry
            ELSE /\ registry' = [registry EXCEPT ![m] = r.versions]
                 /\ run' = [run EXCEPT ![p].pc = "mark",
                                       ![p].results.promoted = TRUE,
                                       ![p].promote_success = r.result.success]
    /\ UNCHANGED <<feedback, runs, lastOp>>

\* "Mark feedback as used" and the return of the results
Mark(p) ==
    /\ run[p].pc = "mark"
    /\ IF should_mark(run[p].results)
       THEN \E dbok \in BOOLEAN :
              IF dbok
              THEN /\ feedback' = mark_feedback_used(feedback, run[p].feedback_ids,
                                      mark_model_type(run[p].model_name))
                   /\ run' = [run EXCEPT ![p].pc = "done",
                                         ![p].marked = run[p].feedback_ids]
              ELSE /\ run' = [run EXCEPT ![p].pc = "done",
                                         ![p].results.error = "exception"]
                   /\ UNCHANGED feedback
       ELSE /\ run' = [run EXCEPT ![p].pc = "done"]
            /\ UNCHANGED feedback
    /\ UNCHANGED <<registry, runs, lastOp>>

\* the caller has the result (or the exception); the slot is free again
Return(p) ==
    /\ run[p].pc \in {"done", "raised"}
    /\ run' = [run EXCEPT ![p] = IdleRun]
    /\ UNCHANGED <<feedback, registry, runs, lastOp>>

----------------------------------------------------------------------------
(* ModelPromoter calls made by an operator (dashboard, API) *)

RegisteredVersions(model_name) ==
    {registry[model_name][i].version : i \in DOMAIN registry[model_name]}

OpPromoteToStaging(model_name, version) ==
    /\ \E ok \in BOOLEAN :
         LET r == promote_to_staging(registry[model_name], model_name, version,
                                     "manual", ok)
         IN /\ registry' = [registry EXCEPT ![model_name] = r.versions]
            /\ lastOp' = r.result
    /\ UNCHANGED <<feedback, runs, run>>

OpPromoteToProduction(model_name, version) ==
    /\ \E ok \in [transition : BOOLEAN] :
         LET r == promote_to_production(registry[model_name], model_name, version,
                                        "manual", ok)
         IN /\ registry' = [registry EXCEPT ![model_name] = r.versions]
            /\ lastOp' = r.result
    /\ UNCHANGED <<feedback, runs, run>>

OpRollback(model_name, to_version) ==
    /\ \E ok \in [history : BOOLEAN, transition : BOOLEAN] :
         LET r == rollback(registry[model_name], model_name, to_version, ok)
         IN /\ registry' = [registry EXCEPT ![model_name] = r.versions]
            /\ lastOp' = r.result
    /\ UNCHANGED <<feedback, runs, run>>

----------------------------------------------------------------------------

Next ==
    \/ \E a \in ArticleIds : AddFeedback("classification", a, "important")
    \/ \E a \in ArticleIds, v \in {"good", "bad"} : AddFeedback("summary", a, v)
    \/ \E m \in Families, force \in BOOLEAN : Start(1, m, force)
    \/ Prepare(1)
    \/ \E metric \in MetricValues(run[1].model_name) : Train(1, metric, MaxVersions)
    \/ Compare(1)
    \/ Promote(1)
    \/ Mark(1)
    \/ Return(1)

Spec == Init /\ [][Next]_vars

\* each training run gains just the improvement threshold on the last one
ImprovedAccuracy == 80 + ClassifierImprovement * Len(runs)

(* The controller in use: forced classifier retraining runs register and   *)
(* promote versions while an operator promotes and rolls back.  Feedback   *)
(* arrives between runs, and the result of a finished run is handed to its *)
(* caller before the operator acts again.                                  *)
Returned == run[1].pc \notin {"done", "raised"}

NextOps ==
    \/ /\ run[1].pc = "idle"
       /\ \E a \in ArticleIds : AddFeedback("classification", a, "important")
    \/ Start(1, CLASSIFIER_MODEL_NAME, TRUE)
    \/ Prepare(1)
    \/ Train(1, ImprovedAccuracy, MaxVersions + 1)
    \/ Compare(1)
    \/ Promote(1)
    \/ Mark(1)
    \/ Return(1)
    \/ /\ Returned
       /\ \E m \in Families : \E v \in RegisteredVersions(m) :
              OpPromoteToStaging(m, v)
    \/ /\ Returned
       /\ \E m \in Families : \E v \in RegisteredVersions(m) :
              OpPromoteToProduction(m, v)
    \/ /\ Returned
       /\ \E m \in Families : OpRollback(m, NoVersion)

SpecOps == Init /\ [][NextOps]_vars

(* Overlapping invocations: two classifier retraining runs (a scheduled    *)
(* one and a manually started one) interleave at their database and        *)
(* registry calls.                                                         *)
NextOverlap ==
    \/ \E a \in ArticleIds : AddFeedback("classification", a, "important")
    \/ \E p \in Procs, force \in BOOLEAN : Start(p, CLASSIFIER_MODEL_NAME, force)
    \/ \E p \in Procs : Prepare(p)
    \/ \E p \in Procs : Train(p, ImprovedAccuracy, MaxVersions)
    \/ \E p \in Procs : Compare(p)
    \/ \E p \in Procs : Promote(p)
    \/ \E p \in Procs : Mark(p)
    \/ \E p \in Procs : Return(p)

SpecOverlap == Init /\ [][NextOverlap]_vars

(* The ledger on its own: feedback submitted through the API for known and *)
(* unknown articles, and calls of mark_feedback_used with any id list      *)
(* (ids of no row included) and any model type.                            *)
NextLedger ==
    \/ \E a \in SubmittedArticleIds : AddFeedback("classification", a, "important")
    \/ \E a \in SubmittedArticleIds, v \in {"good", "bad"} :
           AddFeedback("summary", a, v)
    \/ \E t \in FeedbackTypes, a \in ArticleIds :
           RecordFeedback(t, a, IF t = "classification" THEN "important" ELSE "good")
    \/ \E ids \in SUBSET (1..MaxFeedback), t \in ModelTypes :
           MarkFeedbackUsed(ids, t)

SpecLedger == Init /\ [][NextLedger]_vars

\* DriftDetector.get_drift_report over the prediction counts of the
\* reference window (7 days) and of the current window (the last day of it)
GetDriftReport(reference_counts, current_counts, chisquare) ==
    /\ \A l \in Labels : current_counts[l] <= reference_counts[l]
    /\ lastOp' = get_drift_report(reference_counts, current_counts, chisquare)
    /\ UNCHANGED <<feedback, registry, runs, run>>

(* The drift monitor on its own, over every pair of windows and every      *)
(* outcome of the statistical test.                                        *)
NextDrift ==
    \E reference_counts \in [Labels -> 0..MaxCount],
       current_counts \in [Labels -> 0..MaxCount],
       chisquare \in ChiSquareOutcomes :
        GetDriftReport(reference_counts, current_counts, chisquare)

SpecDrift == Init /\ [][NextDrift]_vars

(* The registry on its own: versions are registered, promoted by hand,     *)
(* rolled back and cleaned up.  Next to the result of the call, lastOp      *)
(* keeps for each family the versions that most recently left Production   *)
(* for Archived and the versions that have held Production.                *)
NoAudit == [superseded |-> [m \in Families |-> {}], held |-> [m \in Families |-> {}]]

audit_of(op) ==
    IF "superseded" \in DOMAIN op
    THEN [superseded |-> op.superseded, held |-> op.held]
    ELSE NoAudit

\* the audit after the versions of model_name changed from old to new
audit(op, model_name, old, new) ==
    LET left == {old[i].version : i \in {i \in DOMAIN old :
                    /\ old[i].current_stage = "Production"
                    /\ new[i].current_stage = "Archived"}}
        entered == {new[i].version : i \in {i \in DOMAIN new :
                       new[i].current_stage = "Production"}}
    IN [superseded |-> [audit_of(op).superseded EXCEPT ![model_name] =
                           IF left = {} THEN @ ELSE left],
        held |-> [audit_of(op).held EXCEPT ![model_name] = @ \cup entered]]

\* MLflowManager.register_model: a new version of the family, in no stage
RegisterModel(name, metric) ==
    /\ Len(runs) < MaxVersions + 1
    /\ runs' = Append(runs, metric)
    /\ registry' = [registry EXCEPT ![name] =
          Append(@, ModelVersion(str(FirstVersion + Len(@)), Len(runs) + 1))]
    /\ UNCHANGED <<feedback, run, lastOp>>

RegistryPromote(model_name, version) ==
    /\ \E ok \in [transition : BOOLEAN] :
         LET r == promote_to_production(registry[model_name], model_name, version,
                                        "manual", ok)
         IN /\ registry' = [registry EXCEPT ![model_name] = r.versions]
            /\ lastOp' = r.result @@ audit(lastOp, model_name,
                                           registry[model_name], r.versions)
    /\ UNCHANGED <<feedback, runs, run>>

RegistryRollback(model_name) ==
    /\ \E ok \in [history : BOOLEAN, transition : BOOLEAN] :
         LET r == rollback(registry[model_name], model_name, NoVersion, ok)
         IN /\ registry' = [registry EXCEPT ![model_name] = r.versions]
            /\ lastOp' = r.result @@ audit(lastOp, model_name,
                                           registry[model_name], r.versions)
    /\ UNCHANGED <<feedback, runs, run>>

RegistryCleanup(model_name, keep_last) ==
    /\ \E done \in 0..Cardinality(cleanup_candidates(registry[model_name], keep_last)) :
         LET versions == cleanup_old_versions(registry[model_name], keep_last, done)
         IN /\ registry' = [registry EXCEPT ![model_name] = versions]
            /\ lastOp' = [op |-> "cleanup_old_versions", model_name |-> model_name]
                             @@ audit(lastOp, model_name, registry[model_name], versions)
    /\ UNCHANGED <<feedback, runs, run>>

NextRegistry ==
    \/ RegisterModel(CLASSIFIER_MODEL_NAME, ImprovedAccuracy)
    \/ \E v \in RegisteredVersions(CLASSIFIER_MODEL_NAME) :
           RegistryPromote(CLASSIFIER_MODEL_NAME, v)
    \/ RegistryRollback(CLASSIFIER_MODEL_NAME)
    \/ \E keep_last \in KeepLast : RegistryCleanup(CLASSIFIER_MODEL_NAME, keep_last)

SpecRegistry == Init /\ [][NextRegistry]_vars

(* Cloud sync: src/scripts/sync_feedback_from_cloud.py.  A cloud row       *)
(* carries a classifier rating, a summary rating, or both; predictions is  *)
(* the predicted label the local database holds for each article (NULL:    *)
(* no prediction).                                                         *)
Ratings == {"useful", "not_useful", "already_knew"}
SummaryRatings == {"good", "poor"}
PredictedLabels == {"important", "worth_learning", "garbage"}

CloudItems ==
    [article_id : ArticleIds, rating : Ratings \cup {NULL},
     summary_rating : SummaryRatings \cup {NULL}]

CloudFeedback == UNION {[1..n -> CloudItems] : n \in 1..MaxItems}

\* the parameters of DatabaseManager.add_feedback
add_feedback_parameters ==
    {"feedback_type", "article_id", "original_value", "corrected_value",
     "user_id", "comment"}

\* the keyword arguments of the two add_feedback calls of the sync
classification_keywords ==
    {"feedback_type", "article_id", "original_value", "corrected_value",
     "user_id", "comment"}

summary_keywords ==
    {"feedback_type", "article_id", "original_value", "corrected_value",
     "user_id", "comment", "summary_rating"}

corrected_label(rating, original_label) ==
    IF rating = "useful" THEN original_label
    ELSE IF rating = "not_useful"
    THEN IF original_label \in {"important", "worth_learning"}
         THEN "garbage" ELSE original_label
    ELSE IF rating = "already_knew"
    THEN IF original_label = "important" THEN "worth_learning" ELSE original_label
    ELSE original_label

\* try: db.add_feedback(...); synced += 1 / except Exception: print(...).
\* The call raises TypeError on a keyword that is no parameter, and raises
\* when the database rejects the insert (dbok = FALSE)
try_add_feedback(state, keywords, feedback_type, article_id, corrected_value, dbok) ==
    IF keywords \subseteq add_feedback_parameters /\ dbok
    THEN [feedback |-> add_feedback(state.feedback, feedback_type, article_id,
                                    corrected_value),
          synced |-> state.synced + 1]
    ELSE state

\* the body of the loop over cloud_feedback
sync_item(state, item, predictions, dbok) ==
    LET original_label == predictions[item.article_id]
        after_rating ==
            IF /\ item.rating # NULL
               /\ original_label # NULL
               /\ \/ corrected_label(item.rating, original_label) # original_label
                  \/ item.rating = "useful"
            THEN try_add_feedback(state, classification_keywords, "classification",
                                  item.article_id,
                                  corrected_label(item.rating, original_label), dbok)
            ELSE state
    IN IF item.summary_rating # NULL
       THEN try_add_feedback(after_rating, summary_keywords, "summary",
                             item.article_id, item.summary_rating, dbok)
       ELSE after_rating

RECURSIVE sync_items(_, _, _, _)
sync_items(state, cloud_feedback, predictions, dbok) ==
    IF cloud_feedback = <<>> THEN state
    ELSE sync_items(sync_item(state, Head(cloud_feedback), predictions, dbok),
                    Tail(cloud_feedback), predictions, dbok)

sync_article_feedback(fb, cloud_feedback, predictions, dbok) ==
    sync_items([feedback |-> fb, synced |-> 0], cloud_feedback, predictions, dbok)

\* one run of the sync script over the rows fetched from the cloud table
SyncArticleFeedback(cloud_feedback, predictions) ==
    /\ Len(feedback) + Len(cloud_feedback) <= MaxFeedback
    /\ \E dbok \in BOOLEAN :
         LET r == sync_article_feedback(feedback, cloud_feedback, predictions, dbok)
         IN /\ feedback' = r.feedback
            /\ lastOp' = [op |-> "sync_article_feedback",
                          cloud_feedback |-> cloud_feedback,
                          predictions |-> predictions,
                          dbok |-> dbok,
                          synced |-> r.synced,
                          appended |-> SubSeq(r.feedback, Len(feedback) + 1,
                                              Len(r.feedback))]
    /\ UNCHANGED <<registry, runs, run>>

NextSync ==
    \E cloud_feedback \in CloudFeedback,
       predictions \in [ArticleIds -> PredictedLabels \cup {NULL}] :
        SyncArticleFeedback(cloud_feedback, predictions)

SpecSync == Init /\ [][NextSync]_vars

----------------------------------------------------------------------------
(* Properties *)

\* the stage the candidate version of run p holds in the registry
CandidateStage(p) ==
    LET versions == registry[run[p].model_name]
    IN IF \E i \in DOMAIN versions : versions[i].run_id = run[p].run_id
       THEN versions[CHOOSE i \in DOMAIN versions :
                        versions[i].run_id = run[p].run_id].current_stage
       ELSE "unregistered"

\* outcomes of a finished run, read from the result dict run() returns
Failed(p) == run[p].pc = "done" /\ run[p].results.error # NULL

Skipped(p) ==
    /\ run[p].pc = "done"
    /\ run[p].results.retrained
    /\ ~run[p].results.promoted
    /\ run[p].results.error = NULL

ProductionVersions(versions) ==
    {int(versions[i].version) : i \in VersionsInStage(versions, "Production")}

ArchivedVersions(versions) ==
    {int(versions[i].version) : i \in VersionsInStage(versions, "Archived")}

(* C1: a run marks its feedback consumed only after the transition of its  *)
(* candidate to Production has been applied: whenever the run has marked   *)
(* feedback, its candidate holds stage Production.                         *)
C1_ConsumedOnlyAfterPromotion ==
    \A p \in Procs :
        run[p].marked # {} => CandidateStage(p) = "Production"

(* C2: a run that ends Failed (error in the result) or Skipped (trained,   *)
(* not promoted) leaves the set of entries consumed for its family as it   *)
(* was when the run started.                                               *)
C2_NoPrematureConsumption ==
    \A p \in Procs :
        (Failed(p) \/ Skipped(p)) =>
            ConsumedBy(run[p].model_name, feedback) = run[p].consumed_before

C2_Witness ==
    \E p \in Procs :
        /\ Failed(p)
        /\ run[p].results.retrained
        /\ run[p].feedback_ids # {}
        /\ run[p].consumed_before # {}

(* C3: a run whose promotion failed in the registry ends Failed; run()     *)
(* reports promoted = true only when the candidate is Production.          *)
C3_PromotedOnlyIfProduction ==
    \A p \in Procs :
        (run[p].pc = "done" /\ run[p].results.promoted) =>
            CandidateStage(p) = "Production"

(* C4: the step of a run that marks feedback changes the consumption flag  *)
(* of the run's own family only.                                           *)
C4_MarksOwnFamilyOnly ==
    [][\A p \in Procs : \A i \in DOMAIN feedback :
          (run[p].pc = "mark" /\ run'[p].pc = "done") =>
              /\ run[p].model_name = CLASSIFIER_MODEL_NAME =>
                    feedback'[i].used_for_summarizer_training =
                        feedback[i].used_for_summarizer_training
              /\ run[p].model_name = SUMMARIZER_MODEL_NAME =>
                    feedback'[i].used_for_classifier_training =
                        feedback[i].used_for_classifier_training]_vars

(* C5: in every state, each model family has at most one version in stage  *)
(* Production.                                                             *)
C5_AtMostOneProduction ==
    \A m \in Families :
        Cardinality(VersionsInStage(registry[m], "Production")) <= 1

C5_Witness ==
    \E m \in Families :
        /\ Cardinality(VersionsInStage(registry[m], "Production")) = 1
        /\ Cardinality(VersionsInStage(registry[m], "Archived")) >= 2
        /\ lastOp.op = "rollback"
        /\ lastOp.success

(* C6: a rollback without explicit target that succeeds makes the Archived *)
(* version with the highest version number (as an integer) the Production  *)
(* version and archives the version that was Production; one that fails    *)
(* changes no stage.                                                       *)
C6_RollbackHighestArchived ==
    [][\A m \in Families :
          OpRollback(m, NoVersion) =>
              IF lastOp'.success
              THEN /\ ArchivedVersions(registry[m]) # {}
                   /\ ProductionVersions(registry'[m]) =
                          {Max(ArchivedVersions(registry[m]))}
                   /\ int(lastOp'.version) = Max(ArchivedVersions(registry[m]))
                   /\ ProductionVersions(registry[m]) \subseteq
                          ArchivedVersions(registry'[m])
              ELSE registry' = registry]_vars

C6_Witness ==
    \E m \in Families :
        /\ lastOp.op = "rollback"
        /\ lastOp.model_name = m
        /\ lastOp.success
        /\ ProductionVersions(registry[m]) = {int(lastOp.version)}
        /\ \E v \in ArchivedVersions(registry[m]) : v > int(lastOp.version)
        /\ \E v \in ArchivedVersions(registry[m]) : v < int(lastOp.version)
        /\ Len(lastOp.version) > 1

(* C7: a rollback without explicit target when no version is Archived      *)
(* returns success = false with an error, and changes no stage.            *)
C7_RollbackWithoutArchived ==
    [][\A m \in Families :
          (OpRollback(m, NoVersion) /\ ArchivedVersions(registry[m]) = {}) =>
              /\ ~lastOp'.success
              /\ lastOp'.error = "No archived versions to rollback to"
              /\ registry' = registry]_vars

C7_Witness ==
    \E m \in Families :
        /\ lastOp.op = "rollback"
        /\ lastOp.model_name = m
        /\ ~lastOp.success
        /\ lastOp.error = "No archived versions to rollback to"
        /\ ArchivedVersions(registry[m]) = {}
        /\ ProductionVersions(registry[m]) # {}
        /\ VersionsInStage(registry[m], "None") # {}

(* C8: a run started with force = False while fewer unconsumed entries than *)
(* the threshold exist ends at once as NotNeeded: nothing retrained,        *)
(* nothing promoted, no error, registry, runs and ledger untouched.         *)
C8_ThresholdGating ==
    [][\A p \in Procs : \A m \in Families :
          (/\ run[p].pc = "idle"
           /\ run'[p].pc \notin {"idle", "raised"}
           /\ run'[p].model_name = m
           /\ ~run'[p].force
           /\ Cardinality(unused_feedback(m, feedback)) < Threshold(m)) =>
              /\ run'[p].pc = "done"
              /\ run'[p].results = NoResults
              /\ run'[p].run_id = 0
              /\ registry' = registry
              /\ runs' = runs
              /\ feedback' = feedback]_vars

C8_Witness ==
    \E p \in Procs :
        /\ run[p].pc = "done"
        /\ run[p].model_name = CLASSIFIER_MODEL_NAME
        /\ ~run[p].force
        /\ run[p].check.feedback_count = ClassifierThreshold - 1
        /\ Cardinality(get_unused_classification_feedback(feedback)) =
               ClassifierThreshold - 1
        /\ run[p].results = NoResults

\* accuracy the candidate of run p gains over the version in Production
AccuracyGain(p) ==
    LET versions == registry[run[p].model_name]
        prod == CHOOSE i \in VersionsInStage(versions, "Production") : TRUE
    IN runs[run[p].run_id] - runs[versions[prod].run_id]

(* C9: while a Production classifier version exists, a classifier run goes  *)
(* on to promote its candidate exactly when the candidate's accuracy gain   *)
(* over production is at least the improvement threshold.                   *)
C9_PromoteIffImproved ==
    \A p \in Procs :
        (/\ run[p].model_name = CLASSIFIER_MODEL_NAME
         /\ run[p].results.retrained
         /\ ~run[p].results.promoted
         /\ VersionsInStage(registry[run[p].model_name], "Production") # {}) =>
            /\ run[p].pc = "promote" => AccuracyGain(p) >= ClassifierImprovement
            /\ run[p].pc = "mark" => AccuracyGain(p) < ClassifierImprovement

(* C10: the steps by which a run decides against promotion and finishes     *)
(* Skipped change neither the registry nor the ledger; at the end the       *)
(* candidate is at stage None, Production is the version it was compared    *)
(* with, and the feedback the run read is still unconsumed.                 *)
C10_SkippedLeavesNoTrace ==
    [][\A p \in Procs :
          (\/ run[p].pc = "compare" /\ run'[p].pc = "mark"
           \/ run[p].pc = "mark" /\ ~run[p].results.promoted
                                 /\ run'[p].pc = "done") =>
              /\ registry' = registry
              /\ feedback' = feedback
              /\ CandidateStage(p)' = "None"
              /\ ProductionVersions(registry'[run[p].model_name]) =
                     {int(run'[p].current_version)}
              /\ run'[p].feedback_ids \subseteq
                     unused_feedback(run[p].model_name, feedback')]_vars

C10_Witness ==
    \E p \in Procs :
        /\ Skipped(p)
        /\ run[p].compared
        /\ run[p].feedback_ids # {}
        /\ CandidateStage(p) = "None"
        /\ run[p].feedback_ids \subseteq unused_feedback(run[p].model_name, feedback)

(* C11: bootstrap of the classifier.  A run that meets the threshold goes   *)
(* on to prepare; it reads every unconsumed classification entry present   *)
(* at preparation; with no Production version it goes to promotion without *)
(* a comparison; and, the registry and the ledger answering, its candidate *)
(* becomes Production and the entries consumed by the classifier grow by   *)
(* exactly the entries it read.                                            *)
C11_Bootstrap ==
    [][\A p \in Procs :
          LET m == CLASSIFIER_MODEL_NAME
          IN /\ (/\ run[p].pc = "idle"
                 /\ run'[p].pc \notin {"idle", "raised"}
                 /\ run'[p].model_name = m
                 /\ Cardinality(get_unused_classification_feedback(feedback))
                        >= ClassifierThreshold) =>
                    run'[p].pc = "prepare"
             /\ (/\ run[p].model_name = m
                 /\ run[p].pc = "prepare"
                 /\ run'[p].pc = "train") =>
                    run'[p].feedback_ids =
                        get_unused_classification_feedback(feedback)
             /\ (/\ run[p].model_name = m
                 /\ run[p].pc = "compare"
                 /\ run'[p].pc # "compare"
                 /\ VersionsInStage(registry[m], "Production") = {}) =>
                    /\ run'[p].pc = "promote"
                    /\ ~run'[p].compared
             /\ (/\ run[p].model_name = m
                 /\ run[p].pc = "promote"
                 /\ ~run[p].compared
                 /\ run'[p].promote_success) =>
                    CandidateStage(p)' = "Production"
             /\ (/\ run[p].model_name = m
                 /\ run[p].pc = "mark"
                 /\ ~run[p].compared
                 /\ run[p].promote_success
                 /\ run'[p].pc = "done"
                 /\ run'[p].results.error = NULL) =>
                    /\ ConsumedBy(m, feedback') =
                           ConsumedBy(m, feedback) \cup run[p].feedback_ids
                    /\ run'[p].marked = run[p].feedback_ids
                    /\ CandidateStage(p)' = "Production"]_vars

C11_Witness ==
    \E p \in Procs :
        /\ run[p].pc = "done"
        /\ run[p].model_name = CLASSIFIER_MODEL_NAME
        /\ ~run[p].force
        /\ run[p].check.feedback_count >= ClassifierThreshold
        /\ ~run[p].compared
        /\ run[p].results.promoted
        /\ run[p].results.error = NULL
        /\ CandidateStage(p) = "Production"
        /\ run[p].marked = run[p].feedback_ids
        /\ Cardinality(run[p].marked) >= ClassifierThreshold
        /\ run[p].marked \subseteq ConsumedBy(CLASSIFIER_MODEL_NAME, feedback)

(* C12: a run goes from the comparison step to promotion without having    *)
(* compared metrics only when the registry holds no Production version of  *)
(* its family.                                                             *)
C12_UncomparedOnlyWithoutProduction ==
    [][\A p \in Procs :
          (/\ run[p].pc = "compare"
           /\ run'[p].pc = "promote"
           /\ ~run'[p].compared) =>
              VersionsInStage(registry[run[p].model_name], "Production") = {}]_vars

\* the entries among the samples of run p that are rated good
GoodSamples(p) ==
    {i \in run[p].feedback_ids : feedback[i].summary_rating = "good"}

(* C13: a summarizer run that has compared its candidate with the          *)
(* Production version goes on to promote exactly when the improvement is   *)
(* at least the improvement threshold or more than 0.7 of the samples it   *)
(* trains on are rated good.                                               *)
C13_SummarizerCriteria ==
    \A p \in Procs :
        (/\ run[p].model_name = SUMMARIZER_MODEL_NAME
         /\ run[p].compared
         /\ ~run[p].results.promoted
         /\ run[p].pc \in {"promote", "mark"}) =>
            (run[p].pc = "promote" <=>
                \/ run[p].improvement >= SummarizerImprovement
                \/ 10 * Cardinality(GoodSamples(p)) >
                       7 * Cardinality(run[p].feedback_ids))

(* C14: run() never raises to its caller.                                   *)
C14_NeverRaises ==
    \A p \in Procs : run[p].pc # "raised"

\* the versions of a registered model that hold the given stage
StageVersions(versions, stage) ==
    {versions[i].version : i \in VersionsInStage(versions, stage)}

(* C15: no step of a run up to the end of training and evaluation (the     *)
(* threshold check, the preparation, the training, whether it returns or   *)
(* raises) marks a ledger entry or moves a version into or out of a stage: *)
(* the ledger and the stages of the registered versions stay as they were. *)
C15_NoPartialState ==
    [][\A p \in Procs :
          (run[p].pc \in {"idle", "prepare", "train"} /\ run'[p] # run[p]) =>
              /\ feedback' = feedback
              /\ run'[p].marked = {}
              /\ \A m \in Families :
                    /\ \A i \in DOMAIN registry[m] :
                          registry'[m][i] = registry[m][i]
                    /\ \A stage \in {"Staging", "Production", "Archived"} :
                          StageVersions(registry'[m], stage) =
                              StageVersions(registry[m], stage)]_vars

C15_Witness ==
    \E p \in Procs :
        /\ Failed(p)
        /\ ~run[p].results.retrained
        /\ run[p].feedback_ids # {}
        /\ run[p].feedback_ids \subseteq unused_feedback(run[p].model_name, feedback)
        /\ VersionsInStage(registry[run[p].model_name], "Production") # {}
        /\ VersionsInStage(registry[run[p].model_name], "None") # {}

(* C16: when the training examples prepared by a run are empty, forced or  *)
(* not, the run ends there with an error in its result: nothing trained,   *)
(* registry, MLflow runs and ledger untouched, nothing marked.  When they  *)
(* are not empty, also when a summarizer run has fewer than the minimum    *)
(* sample count, the run goes on to training.                              *)
C16_EmptyTrainingSetStops ==
    [][\A p \in Procs :
          (run[p].pc = "prepare" /\ run'[p] # run[p]) =>
              IF prepare_training_data(run[p].model_name, feedback) = {}
              THEN /\ run'[p].pc = "done"
                   /\ run'[p].results.error # NULL
                   /\ ~run'[p].results.retrained
                   /\ ~run'[p].results.promoted
                   /\ run'[p].marked = {}
                   /\ registry' = registry
                   /\ runs' = runs
                   /\ feedback' = feedback
              ELSE (/\ run'[p].results.error # "exception"
                    /\ Cardinality(prepare_training_data(run[p].model_name,
                                                         feedback))
                           < MinSummarizerSamples) =>
                       /\ run'[p].pc = "train"
                       /\ run'[p].results.error = NULL]_vars

C16_Witness ==
    \E p \in Procs :
        /\ run[p].pc = "done"
        /\ run[p].model_name = SUMMARIZER_MODEL_NAME
        /\ run[p].force
        /\ run[p].check.feedback_count >= 1
        /\ run[p].results.error = "No usable training data"
        /\ ~run[p].results.retrained
        /\ get_unused_summary_feedback(feedback) # {}
        /\ VersionsInStage(registry[SUMMARIZER_MODEL_NAME], "Production") # {}

(* C17: when a run applies the transition of its candidate to Production  *)
(* while another run of the same family that read some of the same         *)
(* feedback is between its own promotion step and its marking, that other  *)
(* run has not applied a transition to Production.                         *)
C17_NoDoublePromotion ==
    [][\A p \in Procs : \A q \in Procs \ {p} :
          (/\ run[p].pc = "promote"
           /\ run'[p].promote_success
           /\ run[q].pc = "mark"
           /\ run[q].model_name = run[p].model_name
           /\ run[q].feedback_ids \cap run[p].feedback_ids # {}) =>
              ~run[q].promote_success]_vars

(* C18: marking is idempotent: for the ledger of every state, every id     *)
(* list and every model type, marking twice gives the ledger that marking  *)
(* once gives, and marking the empty list gives the ledger back.           *)
C18_MarkIdempotent ==
    \A ids \in SUBSET (1..MaxFeedback) : \A t \in ModelTypes :
        /\ mark_feedback_used(mark_feedback_used(feedback, ids, t), ids, t) =
               mark_feedback_used(feedback, ids, t)
        /\ mark_feedback_used(feedback, {}, t) = feedback

C18_Witness ==
    /\ lastOp.op = "mark_feedback_used"
    /\ ~lastOp.changed
    /\ Cardinality(lastOp.feedback_ids) >= 2
    /\ lastOp.feedback_ids \subseteq DOMAIN feedback
    /\ \E i \in lastOp.feedback_ids : ~feedback[i].used_for_summarizer_training

\* the fields of a ledger row other than its consumption flags
Recorded(row) ==
    <<row.article_id, row.correct_label, row.summary_rating,
      row.summary_edited_text>>

(* C19: every step keeps every recorded entry, with the fields it was      *)
(* recorded with, and never turns a consumption flag from true to false.   *)
C19_MonotonicLedger ==
    [][/\ Len(feedback') >= Len(feedback)
       /\ \A i \in DOMAIN feedback :
             /\ Recorded(feedback'[i]) = Recorded(feedback[i])
             /\ feedback[i].used_for_training => feedback'[i].used_for_training
             /\ feedback[i].used_for_classifier_training =>
                    feedback'[i].used_for_classifier_training
             /\ feedback[i].used_for_summarizer_training =>
                    feedback'[i].used_for_summarizer_training]_vars

C19_Witness ==
    \E p \in Procs :
        /\ run[p].pc = "done"
        /\ run[p].marked # {}
        /\ \E i \in DOMAIN feedback :
              /\ i \notin run[p].marked
              /\ i \in run[p].consumed_before
              /\ feedback[i].used_for_classifier_training

(* C20: the unconsumed queries return exactly the recorded entries whose   *)
(* flag for the model type is false and that are relevant to it.           *)
C20_UnconsumedComplete ==
    /\ get_unused_classification_feedback(feedback) =
           {i \in DOMAIN feedback :
               /\ feedback[i].correct_label # NULL
               /\ ~feedback[i].used_for_classifier_training}
    /\ get_unused_summary_feedback(feedback) =
           {i \in DOMAIN feedback :
               /\ \/ feedback[i].summary_rating # NULL
                  \/ feedback[i].summary_edited_text # NULL
               /\ ~feedback[i].used_for_summarizer_training}

C22_AlertLevelByPValue ==
    (lastOp.op = "get_drift_report"
        /\ "p_value" \in DOMAIN lastOp.prediction_drift) =>
        LET p == lastOp.prediction_drift.p_value
        IN /\ lastOp.alert_level = "high" <=> p < 5
           /\ lastOp.alert_level = "medium" <=> (5 <= p /\ p < 10)
           /\ lastOp.alert_level = "low" <=> p >= 10

C22_Witness ==
    /\ lastOp.op = "get_drift_report"
    /\ "p_value" \in DOMAIN lastOp.prediction_drift
    /\ lastOp.prediction_drift.p_value = 5
    /\ lastOp.alert_level = "medium"
    /\ SumOver(lastOp.current_counts, Labels) < SumOver(lastOp.reference_counts, Labels)

(* C23: a report over a reference or a current window without predictions  *)
(* makes no drift claim (not detected, insufficient-data reason, no        *)
(* p-value) and has an alert level other than low, medium and high.        *)
C23_InsufficientDataUnknown ==
    (lastOp.op = "get_drift_report"
        /\ \/ SumOver(lastOp.reference_counts, Labels) = 0
           \/ SumOver(lastOp.current_counts, Labels) = 0) =>
        /\ ~lastOp.prediction_drift.drift_detected
        /\ "reason" \in DOMAIN lastOp.prediction_drift
        /\ "p_value" \notin DOMAIN lastOp.prediction_drift
        /\ lastOp.alert_level \notin {"low", "medium", "high"}

\* the stage a version of a registered model holds
StageOf(versions, version) ==
    versions[CHOOSE i \in DOMAIN versions :
                versions[i].version = version].current_stage

(* C24 as stated: a successful promote_to_staging puts the given version   *)
(* in Staging, leaves every other version of the family as it was and      *)
(* leaves the Production version of the family unchanged; a failed one     *)
(* reports success = false and changes no stage.                           *)
C24_StagingKeepsProduction ==
    [][\A m \in Families : \A v \in RegisteredVersions(m) :
          OpPromoteToStaging(m, v) =>
              IF lastOp'.success
              THEN /\ StageOf(registry'[m], v) = "Staging"
                   /\ \A i \in DOMAIN registry[m] :
                         registry[m][i].version # v =>
                             registry'[m][i] = registry[m][i]
                   /\ StageVersions(registry'[m], "Production") =
                          StageVersions(registry[m], "Production")
              ELSE /\ registry' = registry
                   /\ lastOp'.error # NULL]_vars

(* C24 amended: a successful promote_to_staging puts the given version in  *)
(* Staging and leaves every other version of the family as it was, so      *)
(* other Staging versions stay and the Production version is unchanged     *)
(* unless it is the given version itself, which then leaves Production; a  *)
(* failed one reports success = false and changes no stage.                *)
C24_StagingMovesOnlyGiven ==
    [][\A m \in Families : \A v \in RegisteredVersions(m) :
          OpPromoteToStaging(m, v) =>
              IF lastOp'.success
              THEN /\ StageOf(registry'[m], v) = "Staging"
                   /\ \A i \in DOMAIN registry[m] :
                         registry[m][i].version # v =>
                             registry'[m][i] = registry[m][i]
                   /\ StageVersions(registry'[m], "Production") =
                          StageVersions(registry[m], "Production") \ {v}
                   /\ StageVersions(registry'[m], "Staging") =
                          StageVersions(registry[m], "Staging") \cup {v}
              ELSE /\ registry' = registry
                   /\ lastOp'.error # NULL]_vars

C24_Witness ==
    \E m \in Families :
        /\ lastOp.op = "promote_to_staging"
        /\ lastOp.model_name = m
        /\ lastOp.success
        /\ StageOf(registry[m], lastOp.version) = "Staging"
        /\ Cardinality(VersionsInStage(registry[m], "Staging")) >= 2
        /\ VersionsInStage(registry[m], "Production") # {}

\* C25: the version a rollback without a target promotes is among the
\* versions that most recently left Production for Archived, and so has held
\* Production earlier
C25_RollbackToLastSuperseded ==
    [][\A m \in Families :
          (RegistryRollback(m) /\ lastOp'.success)
              => /\ lastOp'.version \in audit_of(lastOp).superseded[m]
                 /\ lastOp'.version \in audit_of(lastOp).held[m]]_vars

\* the rows of a sync whose classifier rating yields a classification entry:
\* the article has a prediction and the rating is a correction or 'useful'
ClassifierRows(op) ==
    {i \in DOMAIN op.cloud_feedback :
        LET item == op.cloud_feedback[i]
            original_label == op.predictions[item.article_id]
        IN /\ item.rating # NULL
           /\ original_label # NULL
           /\ \/ item.rating = "useful"
              \/ corrected_label(item.rating, original_label) # original_label}

SummaryRows(op) ==
    {i \in DOMAIN op.cloud_feedback : op.cloud_feedback[i].summary_rating # NULL}

\* C26: a sync whose database accepts every insert appends one summary entry
\* per cloud row with a summary rating and one classification entry per row
\* whose classifier rating counts, and its synced total counts them all
C26_SyncAppendsEntries ==
    (lastOp.op = "sync_article_feedback" /\ lastOp.dbok)
        => /\ Cardinality({i \in DOMAIN lastOp.appended :
                  lastOp.appended[i].summary_rating # NULL})
                = Cardinality(SummaryRows(lastOp))
           /\ Cardinality({i \in DOMAIN lastOp.appended :
                  lastOp.appended[i].correct_label # NULL})
                = Cardinality(ClassifierRows(lastOp))
           /\ lastOp.synced
                = Cardinality(SummaryRows(lastOp)) + Cardinality(ClassifierRows(lastOp))

\* C27: the unconsumed counts of get_feedback_stats equal the numbers of
\* entries the two unconsumed queries return
C27_StatsAgreeWithQueries ==
    /\ get_feedback_stats(feedback).unused_classification_feedback
         = Cardinality(get_unused_classification_feedback(feedback))
    /\ get_feedback_stats(feedback).unused_summary_feedback
         = Cardinality(get_unused_summary_feedback(feedback))

\* the versions of the family of run p that the step takes from Production
\* to Archived
Replaced(p) ==
    LET old == registry[run[p].model_name]
        new == registry'[run[p].model_name]
    IN {i \in DOMAIN old : /\ old[i].current_stage = "Production"
                           /\ new[i].current_stage = "Archived"}

\* C28: when a classifier run that compared its candidate applies the
\* promotion, every Production version the step archives is the version it
\* compared with, and its accuracy is at most the candidate's accuracy less
\* the improvement threshold
C28_ArchivesComparedVersion ==
    [][\A p \in Procs :
          (/\ run[p].pc = "promote"
           /\ run[p].model_name = CLASSIFIER_MODEL_NAME
           /\ run[p].compared
           /\ run'[p].promote_success) =>
              \A i \in Replaced(p) :
                  /\ registry[CLASSIFIER_MODEL_NAME][i].version = run[p].current_version
                  /\ runs[registry[CLASSIFIER_MODEL_NAME][i].run_id]
                       <= runs[run[p].run_id] - ClassifierImprovement]_vars

(* C29: a run keeps the ids it read at preparation until it ends; its     *)
(* marking step consumes, for its family, all of them and changes no other *)
(* entry, and no other step of the run changes an entry, so an entry       *)
(* recorded after the read is as unconsumed at the end of the run as it    *)
(* was recorded.                                                           *)
C29_MarksWhatItRead ==
    [][\A p \in Procs :
          /\ (run[p].pc = "prepare" /\ run'[p].pc = "train") =>
                 run'[p].feedback_ids =
                     prepare_training_data(run[p].model_name, feedback)
          /\ (run[p].pc \in {"train", "compare", "promote", "mark"}
                  /\ run'[p] # run[p]) =>
                 /\ run'[p].feedback_ids = run[p].feedback_ids
                 /\ \A i \in DOMAIN feedback \ run[p].feedback_ids :
                        feedback'[i] = feedback[i]
                 /\ run[p].pc # "mark" => feedback' = feedback
                 /\ run'[p].marked \in {{}, run[p].feedback_ids}
                 /\ ConsumedBy(run[p].model_name, feedback') =
                        ConsumedBy(run[p].model_name, feedback) \cup run'[p].marked]_vars

C29_Witness ==
    \E p \in Procs :
        /\ run[p].pc = "done"
        /\ run[p].marked # {}
        /\ run[p].marked = run[p].feedback_ids
        /\ \E i \in DOMAIN feedback \ run[p].marked :
              /\ i \in unused_feedback(run[p].model_name, feedback)
              /\ i \notin run[p].consumed_before
              /\ ~feedback[i].used_for_training

(* C30: when a run whose promotion was applied marks without error and    *)
(* no entry of its family was recorded since its threshold check, every    *)
(* entry the check counted is consumed for the family afterwards, and the  *)
(* threshold check of the next run finds no need to retrain.               *)
C30_NoRetriggerAfterPromotion ==
    [][\A p \in Procs :
          (/\ run[p].pc = "mark"
           /\ run'[p].pc = "done"
           /\ run[p].promote_success
           /\ run'[p].results.error = NULL
           /\ Cardinality(unused_feedback(run[p].model_name, feedback))
                  = run[p].check.feedback_count) =>
              /\ unused_feedback(run[p].model_name, feedback') = {}
              /\ ~check_retrain_needed(run[p].model_name, feedback').needs_retrain]_vars

====
